---------------------------- MODULE Spec2Model ----------------------------
(***************************************************************************)
(* A model of the nand2tetris tool chain of this repository:               *)
(*   - the Hack assembler   (nand2tetris-asm/src/main.rs),                 *)
(*   - the VM translator    (nand2tetris-vm/src/main.rs),                  *)
(*   - the Hack CPU that runs what the two produce.                        *)
(* Source text is kept as text: a line is a string, and the operators      *)
(* below split, search and parse it character by character the way the     *)
(* Rust code does.                                                         *)
(***************************************************************************)
EXTENDS Integers, Sequences, FiniteSets, TLC

VARIABLES
    \* ---- assembler (nand2tetris-asm) ----
    code,                   \* the preprocessed program: a sequence of lines
    symbol_table,           \* HashMap<String, u16>
    current_line_num,       \* pass 1's counter
    not_defined_variable,   \* pass 2's counter
    binary_code,            \* assemble's output vector
    asm_pc,                 \* where the assembler is
    asm_i,                  \* index of the line a loop is at (1-based)
    asm_err,                \* the error assemble returned ("" when none)
    \* ---- VM translator (nand2tetris-vm) ----
    lines,                  \* Parser.lines
    current,                \* Parser.current (0-based)
    output,                 \* CodeWriter.output
    label_counter,          \* CodeWriter.label_counter
    vm_pc,                  \* where translate is
    vm_err,                 \* the error translate returned ("" when none)
    \* ---- target machine ----
    RAM, A, D, PC,          \* data memory and the CPU's registers
    cpu_pc,                 \* "off" | "run" | "halt"
    ram0                    \* the data memory the run started from

asm_vars == <<code, symbol_table, current_line_num, not_defined_variable,
              binary_code, asm_pc, asm_i, asm_err>>
vm_vars  == <<lines, current, output, label_counter, vm_pc, vm_err>>
cpu_vars == <<RAM, A, D, PC, cpu_pc, ram0>>
vars     == <<asm_vars, vm_vars, cpu_vars>>

(***************************************************************************)
(* Bounds of the model.                                                    *)
(***************************************************************************)
MaxLines == 3       \* longest assembler program drawn from AsmVocab
MaxCmds  == 3       \* longest VM program drawn from VMVocab
RamSize  == 24      \* the data memory the model follows: addresses 0..RamSize-1

(***************************************************************************)
(* Text.                                                                   *)
(***************************************************************************)
CharAt(s, i) == SubSeq(s, i, i)

starts_with(s, c) == Len(s) >= 1 /\ CharAt(s, 1) = c

ends_with(s, c) == Len(s) >= 1 /\ CharAt(s, Len(s)) = c

contains(s, c) == \E i \in 1..Len(s) : CharAt(s, i) = c

\* s[from..] of Rust, `from` counted in characters from 0
StrFrom(s, from) == SubSeq(s, from + 1, Len(s))

\* position of the first c in s, 0 when there is none
RECURSIVE FindFrom(_, _, _)
FindFrom(s, c, i) ==
    IF i > Len(s) THEN 0
    ELSE IF CharAt(s, i) = c THEN i
    ELSE FindFrom(s, c, i + 1)

\* str::split(c): the parts between the occurrences of c, never empty
RECURSIVE split(_, _)
split(s, c) ==
    LET p == FindFrom(s, c, 1)
    IN  IF p = 0 THEN <<s>>
        ELSE <<SubSeq(s, 1, p - 1)>> \o split(SubSeq(s, p + 1, Len(s)), c)

Digits == "0123456789"

IsDigit(c) == \E d \in 0..9 : CharAt(Digits, d + 1) = c

DigitVal(c) == CHOOSE d \in 0..9 : CharAt(Digits, d + 1) = c

AllDigits(s) == \A i \in 1..Len(s) : IsDigit(CharAt(s, i))

RECURSIVE DecimalValue(_)
DecimalValue(s) ==
    IF Len(s) = 0 THEN 0
    ELSE 10 * DecimalValue(SubSeq(s, 1, Len(s) - 1)) + DigitVal(CharAt(s, Len(s)))

\* format!("{}", n) of a non-negative integer
RECURSIVE ToDecimal(_)
ToDecimal(n) ==
    IF n < 10 THEN CharAt(Digits, n + 1)
    ELSE ToDecimal(n \div 10) \o CharAt(Digits, (n % 10) + 1)

\* format!("{}", n) of an i32
FormatInt(n) == IF n < 0 THEN "-" \o ToDecimal(-n) ELSE ToDecimal(n)

\* str::parse::<u16>(): an optional '+', then one digit or more, value < 2^16
ParseU16(s) ==
    LET body == IF starts_with(s, "+") THEN StrFrom(s, 1) ELSE s
    IN  IF Len(body) >= 1 /\ AllDigits(body) /\ DecimalValue(body) <= 65535
        THEN [ok |-> TRUE, val |-> DecimalValue(body)]
        ELSE [ok |-> FALSE, val |-> 0]

\* format!("{:016b}", val) of a u16, most significant bit first
RECURSIVE ToBinary(_, _)
ToBinary(val, width) ==
    IF width = 0 THEN ""
    ELSE ToBinary(val \div 2, width - 1) \o (IF val % 2 = 1 THEN "1" ELSE "0")

\* the value a string of bits denotes
RECURSIVE BitsValue(_)
BitsValue(s) ==
    IF Len(s) = 0 THEN 0
    ELSE 2 * BitsValue(SubSeq(s, 1, Len(s) - 1))
         + (IF CharAt(s, Len(s)) = "1" THEN 1 ELSE 0)

\* a formatting slip: "{:b}" pads nothing
RECURSIVE ToBinaryUnpadded(_)
ToBinaryUnpadded(val) ==
    IF val < 2 THEN (IF val = 1 THEN "1" ELSE "0")
    ELSE ToBinaryUnpadded(val \div 2) \o (IF val % 2 = 1 THEN "1" ELSE "0")

FormatAddress_NoPad(val) == ToBinaryUnpadded(val) \o "\n"

FormatAddress(val) == ToBinary(val, 16) \o "\n"

(***************************************************************************)
(* The assembler: its tables.                                              *)
(***************************************************************************)
Insert(t, k, v) == [n \in (DOMAIN t) \cup {k} |-> IF n = k THEN v ELSE t[n]]

EmptyTable == [n \in {} |-> 0]

RECURSIVE InsertAll(_, _)
InsertAll(t, kvs) ==
    IF kvs = <<>> THEN t
    ELSE InsertAll(Insert(t, kvs[1][1], kvs[1][2]), Tail(kvs))

\* the symbols build_symbol_table inserts before pass 1, in its order
PredefinedSymbols ==
    << <<"R0", 0>>, <<"R1", 1>>, <<"R2", 2>>, <<"R3", 3>>, <<"R4", 4>>,
       <<"R5", 5>>, <<"R6", 6>>, <<"R7", 7>>, <<"R8", 8>>, <<"R9", 9>>,
       <<"R10", 10>>, <<"R11", 11>>, <<"R12", 12>>, <<"R13", 13>>,
       <<"R14", 14>>, <<"R15", 15>>,
       <<"SP", 0>>, <<"LCL", 2>>, <<"ARG", 3>>, <<"THIS", 4>>,
       <<"SCREEN", 16384>>, <<"KBD", 24576>> >>

CompMnemonics ==
    { "0", "1", "-1", "D", "A", "!D", "!A", "-D", "-A", "D+1", "A+1", "D-1",
      "A-1", "D+A", "D-A", "A-D", "D&A", "D|A",
      "M", "!M", "-M", "M+1", "M-1", "D+M", "D-M", "M-D", "D&M", "D|M" }

\* the match of comp_table, arm by arm
comp_match(comp) ==
    CASE comp = "0"   -> [ok |-> TRUE, val |-> "0101010"]
      [] comp = "1"   -> [ok |-> TRUE, val |-> "0111111"]
      [] comp = "-1"  -> [ok |-> TRUE, val |-> "0111010"]
      [] comp = "D"   -> [ok |-> TRUE, val |-> "0001100"]
      [] comp = "A"   -> [ok |-> TRUE, val |-> "0110000"]
      [] comp = "!D"  -> [ok |-> TRUE, val |-> "0001101"]
      [] comp = "!A"  -> [ok |-> TRUE, val |-> "0110001"]
      [] comp = "-D"  -> [ok |-> TRUE, val |-> "0001111"]
      [] comp = "-A"  -> [ok |-> TRUE, val |-> "0110011"]
      [] comp = "D+1" -> [ok |-> TRUE, val |-> "0011111"]
      [] comp = "A+1" -> [ok |-> TRUE, val |-> "0110111"]
      [] comp = "D-1" -> [ok |-> TRUE, val |-> "0001110"]
      [] comp = "A-1" -> [ok |-> TRUE, val |-> "0110010"]
      [] comp = "D+A" -> [ok |-> TRUE, val |-> "0000010"]
      [] comp = "D-A" -> [ok |-> TRUE, val |-> "0010011"]
      [] comp = "A-D" -> [ok |-> TRUE, val |-> "0000111"]
      [] comp = "D&A" -> [ok |-> TRUE, val |-> "0000000"]
      [] comp = "D|A" -> [ok |-> TRUE, val |-> "0010101"]
      [] comp = "M"   -> [ok |-> TRUE, val |-> "1110000"]
      [] comp = "!M"  -> [ok |-> TRUE, val |-> "1110001"]
      [] comp = "-M"  -> [ok |-> TRUE, val |-> "1110011"]
      [] comp = "M+1" -> [ok |-> TRUE, val |-> "1110111"]
      [] comp = "M-1" -> [ok |-> TRUE, val |-> "1110010"]
      [] comp = "D+M" -> [ok |-> TRUE, val |-> "1000010"]
      [] comp = "D-M" -> [ok |-> TRUE, val |-> "1010011"]
      [] comp = "M-D" -> [ok |-> TRUE, val |-> "1000111"]
      [] comp = "D&M" -> [ok |-> TRUE, val |-> "1000000"]
      [] comp = "D|M" -> [ok |-> TRUE, val |-> "1010101"]
      [] OTHER        -> [ok |-> FALSE, val |-> "invalid comp pattern"]

\* a copying slip: the arm of "D|M" carries the code of "D&M"
comp_table_DupCode(comp) ==
    IF comp = "D|M" THEN [ok |-> TRUE, val |-> "1000000"] ELSE comp_match(comp)

comp_table(comp) == comp_match(comp)

jump_table(jump) ==
    CASE jump = "JGT" -> "001"
      [] jump = "JEQ" -> "010"
      [] jump = "JGE" -> "011"
      [] jump = "JLT" -> "100"
      [] jump = "JNE" -> "101"
      [] jump = "JLE" -> "110"
      [] jump = "JMP" -> "111"
      [] OTHER        -> "000"


(***************************************************************************)
(* The assembler: one line.                                                *)
(***************************************************************************)
IsLabelLine(line) == starts_with(line, "(") /\ ends_with(line, ")")

\* &line[1..line.len() - 1]
LabelName(line) == SubSeq(line, 2, Len(line) - 1)

\* the three destination flags, by containment
dest_bits_ADM_swapped(dest_parts) ==
    (IF contains(dest_parts, "A") THEN "1" ELSE "0")
    \o (IF contains(dest_parts, "M") THEN "1" ELSE "0")
    \o (IF contains(dest_parts, "D") THEN "1" ELSE "0")

dest_bits(dest_parts) ==
    (IF contains(dest_parts, "A") THEN "1" ELSE "0")
    \o (IF contains(dest_parts, "D") THEN "1" ELSE "0")
    \o (IF contains(dest_parts, "M") THEN "1" ELSE "0")

\* the A-instruction branch of assemble
AssembleAddress(sym, table) ==
    LET num == ParseU16(sym)
    IN  IF num.ok THEN [ok |-> TRUE, val |-> FormatAddress(num.val)]
        ELSE IF sym \in DOMAIN table
             THEN [ok |-> TRUE, val |-> FormatAddress(table[sym])]
             ELSE [ok |-> FALSE, val |-> "undefined symbol"]

\* a formatting slip: the C-instruction's line is pushed without its newline
AssembleCompute_NoNewline(line) ==
    LET parts    == split(line, ";")
        jump     == IF Len(parts) > 1 THEN jump_table(parts[2]) ELSE "000"
        dc_parts == split(parts[1], "=")
        dest     == IF Len(dc_parts) > 1 THEN dest_bits(dc_parts[1]) ELSE "000"
        comp     == IF Len(dc_parts) > 1 THEN comp_table(dc_parts[2])
                                         ELSE comp_table(dc_parts[1])
    IN  IF comp.ok
        THEN [ok |-> TRUE, val |-> "111" \o comp.val \o dest \o jump]
        ELSE [ok |-> FALSE, val |-> comp.val]

\* the C-instruction branch of assemble
AssembleCompute(line) ==
    LET parts    == split(line, ";")
        jump     == IF Len(parts) > 1 THEN jump_table(parts[2]) ELSE "000"
        dc_parts == split(parts[1], "=")
        dest     == IF Len(dc_parts) > 1 THEN dest_bits(dc_parts[1]) ELSE "000"
        comp     == IF Len(dc_parts) > 1 THEN comp_table(dc_parts[2])
                                         ELSE comp_table(dc_parts[1])
    IN  IF comp.ok
        THEN [ok |-> TRUE, val |-> "111" \o comp.val \o dest \o jump \o "\n"]
        ELSE [ok |-> FALSE, val |-> comp.val]

AssembleLine(line, table) ==
    IF starts_with(line, "@") THEN AssembleAddress(StrFrom(line, 1), table)
    ELSE AssembleCompute(line)

(***************************************************************************)
(* The assembler: build_symbol_table and assemble, a line at a step.       *)
(***************************************************************************)
\* lines 75-103: the predefined symbols, pass 1's counter
BuildInit ==
    /\ asm_pc = "init"
    /\ symbol_table' = InsertAll(EmptyTable, PredefinedSymbols)
    /\ current_line_num' = 0
    /\ asm_i' = 1
    /\ asm_pc' = "pass1"
    /\ UNCHANGED <<code, not_defined_variable, binary_code, asm_err>>
    /\ UNCHANGED <<vm_vars, cpu_vars>>

\* a slip: a label declaration advances the counter like any other line
Pass1Line_CountsLabels(line, table, counter) ==
    IF IsLabelLine(line)
    THEN [table |-> Insert(table, LabelName(line), counter), counter |-> counter + 1]
    ELSE [table |-> table, counter |-> counter + 1]

\* pass 1, one line: a label is bound to the counter, any other line counts
Pass1Line(line, table, counter) ==
    IF IsLabelLine(line)
    THEN [table |-> Insert(table, LabelName(line), counter), counter |-> counter]
    ELSE [table |-> table, counter |-> counter + 1]

Pass1Step ==
    /\ asm_pc = "pass1"
    /\ asm_i <= Len(code)
    /\ LET r == Pass1Line(code[asm_i], symbol_table, current_line_num)
       IN  /\ symbol_table' = r.table
           /\ current_line_num' = r.counter
    /\ asm_i' = asm_i + 1
    /\ UNCHANGED <<code, not_defined_variable, binary_code, asm_pc, asm_err>>
    /\ UNCHANGED <<vm_vars, cpu_vars>>

\* lines 113-114: pass 1's loop is over, pass 2 starts at 16
Pass1Done ==
    /\ asm_pc = "pass1"
    /\ asm_i > Len(code)
    /\ not_defined_variable' = 16
    /\ asm_i' = 1
    /\ asm_pc' = "pass2"
    /\ UNCHANGED <<code, symbol_table, current_line_num, binary_code, asm_err>>
    /\ UNCHANGED <<vm_vars, cpu_vars>>

\* a slip: is_ok() for is_err(), so no variable is ever allocated
Pass2Allocates_IsOk(line, table) ==
    /\ starts_with(line, "@")
    /\ ParseU16(StrFrom(line, 1)).ok
    /\ StrFrom(line, 1) \notin DOMAIN table

\* the condition under which pass 2 allocates a line's operand
Pass2Allocates(line, table) ==
    /\ starts_with(line, "@")
    /\ ~ParseU16(StrFrom(line, 1)).ok
    /\ StrFrom(line, 1) \notin DOMAIN table

\* a slip: the counter is not advanced after an insertion
Pass2Line_NoIncrement(line, table, counter) ==
    IF Pass2Allocates(line, table)
    THEN [table |-> Insert(table, StrFrom(line, 1), counter), counter |-> counter]
    ELSE [table |-> table, counter |-> counter]

Pass2Line(line, table, counter) ==
    IF Pass2Allocates(line, table)
    THEN [table |-> Insert(table, StrFrom(line, 1), counter), counter |-> counter + 1]
    ELSE [table |-> table, counter |-> counter]

Pass2Step ==
    /\ asm_pc = "pass2"
    /\ asm_i <= Len(code)
    /\ LET r == Pass2Line(code[asm_i], symbol_table, not_defined_variable)
       IN  /\ symbol_table' = r.table
           /\ not_defined_variable' = r.counter
    /\ asm_i' = asm_i + 1
    /\ UNCHANGED <<code, current_line_num, binary_code, asm_pc, asm_err>>
    /\ UNCHANGED <<vm_vars, cpu_vars>>

\* build_symbol_table returns; assemble starts with an empty vector
Pass2Done ==
    /\ asm_pc = "pass2"
    /\ asm_i > Len(code)
    /\ binary_code' = <<>>
    /\ asm_i' = 1
    /\ asm_pc' = "assemble"
    /\ UNCHANGED <<code, symbol_table, current_line_num, not_defined_variable, asm_err>>
    /\ UNCHANGED <<vm_vars, cpu_vars>>

\* assemble, one line: a label is skipped, an error ends the run with no output
AssembleStep ==
    /\ asm_pc = "assemble"
    /\ asm_i <= Len(code)
    /\ LET line == code[asm_i]
           r    == AssembleLine(line, symbol_table)
       IN  IF IsLabelLine(line)
           THEN /\ asm_i' = asm_i + 1
                /\ UNCHANGED <<binary_code, asm_pc, asm_err>>
           ELSE IF r.ok
           THEN /\ binary_code' = Append(binary_code, r.val)
                /\ asm_i' = asm_i + 1
                /\ UNCHANGED <<asm_pc, asm_err>>
           ELSE /\ binary_code' = <<>>
                /\ asm_err' = r.val
                /\ asm_pc' = "error"
                /\ UNCHANGED asm_i
    /\ UNCHANGED <<code, symbol_table, current_line_num, not_defined_variable>>
    /\ UNCHANGED <<vm_vars, cpu_vars>>

\* Ok(binary_code)
AssembleDone ==
    /\ asm_pc = "assemble"
    /\ asm_i > Len(code)
    /\ asm_pc' = "done"
    /\ UNCHANGED <<code, symbol_table, current_line_num, not_defined_variable,
                   binary_code, asm_i, asm_err>>
    /\ UNCHANGED <<vm_vars, cpu_vars>>

AsmNext ==
    \/ BuildInit
    \/ Pass1Step
    \/ Pass1Done
    \/ Pass2Step
    \/ Pass2Done
    \/ AssembleStep
    \/ AssembleDone


(***************************************************************************)
(* The VM translator: Parser.                                              *)
(***************************************************************************)
IsSpace(c) == c \in {" ", "\t"}

\* position of the first space in s at or after i, Len(s) + 1 when none
RECURSIVE FindSpace(_, _)
FindSpace(s, i) ==
    IF i > Len(s) THEN Len(s) + 1
    ELSE IF IsSpace(CharAt(s, i)) THEN i
    ELSE FindSpace(s, i + 1)

\* str::split_ascii_whitespace: the maximal runs of characters not space
RECURSIVE SplitWs(_)
SplitWs(s) ==
    IF Len(s) = 0 THEN <<>>
    ELSE IF IsSpace(CharAt(s, 1)) THEN SplitWs(StrFrom(s, 1))
    ELSE LET stop == FindSpace(s, 1)
         IN  <<SubSeq(s, 1, stop - 1)>> \o SplitWs(StrFrom(s, stop - 1))

\* str::parse::<i32>(): an optional sign, one digit or more, value in i32
ParseI32(s) ==
    LET signed == starts_with(s, "+") \/ starts_with(s, "-")
        body   == IF signed THEN StrFrom(s, 1) ELSE s
        mag    == DecimalValue(body)
        val    == IF starts_with(s, "-") THEN -mag ELSE mag
    IN  IF Len(body) >= 1 /\ AllDigits(body) /\ val >= -2147483647 - 1 /\ val <= 2147483647
        THEN [ok |-> TRUE, val |-> val]
        ELSE [ok |-> FALSE, val |-> 0]

Letters == "abcdefghijklmnopqrstuvwxyzABCDEFGHIJKLMNOPQRSTUVWXYZ"

\* [a-zA-Z_.:]
IsLabelStart(c) == contains(Letters, c) \/ c \in {"_", ".", ":"}

\* [a-zA-Z0-9_.:]
IsLabelChar(c) == IsLabelStart(c) \/ IsDigit(c)

\* a slip in the pattern: the first character's class admits the digits too
validate_label_AnyFirst(label) ==
    /\ Len(label) >= 1
    /\ \A i \in 1..Len(label) : IsLabelChar(CharAt(label, i))

\* validate_label(label) is Ok: not empty, and ^[a-zA-Z_.:][a-zA-Z0-9_.:]*$
validate_label(label) ==
    /\ Len(label) >= 1
    /\ IsLabelStart(CharAt(label, 1))
    /\ \A i \in 2..Len(label) : IsLabelChar(CharAt(label, i))

ArithmeticNames == {"add", "sub", "neg", "eq", "gt", "lt", "and", "or", "not"}

ParseError(msg) ==
    [ok |-> FALSE, err |-> msg, command_type |-> "", arg1 |-> "", arg2 |-> 0]

Command(type, a1, a2) ==
    [ok |-> TRUE, err |-> "", command_type |-> type, arg1 |-> a1, arg2 |-> a2]

\* the "push" and "pop" arms of Parser::parse
ParseSegmentCommand(type, parts) ==
    IF Len(parts) < 2 THEN ParseError("Missing segment argument")
    ELSE IF Len(parts) < 3 THEN ParseError("Missing segment argument")
    ELSE IF ~ParseI32(parts[3]).ok THEN ParseError("Invalid index")
    ELSE Command(type, parts[2], ParseI32(parts[3]).val)

\* the "label", "goto" and "if-goto" arms of Parser::parse
ParseLabelCommand(type, parts) ==
    IF Len(parts) < 2 THEN ParseError("Missing label name")
    ELSE IF ~validate_label(parts[2]) THEN ParseError("Invalid label")
    ELSE Command(type, parts[2], 0)

\* Parser::parse of one line
ParseLine(line) ==
    LET parts == SplitWs(line)
    IN  IF Len(parts) = 0 THEN ParseError("Empty command")
        ELSE IF parts[1] \in ArithmeticNames THEN Command("Arithmetic", parts[1], 0)
        ELSE IF parts[1] = "push" THEN ParseSegmentCommand("Push", parts)
        ELSE IF parts[1] = "pop" THEN ParseSegmentCommand("Pop", parts)
        ELSE IF parts[1] = "label" THEN ParseLabelCommand("Label", parts)
        ELSE IF parts[1] = "goto" THEN ParseLabelCommand("Goto", parts)
        ELSE IF parts[1] = "if-goto" THEN ParseLabelCommand("IfGoto", parts)
        ELSE ParseError("Unkonown command")

(***************************************************************************)
(* The VM translator: CodeWriter.                                          *)
(***************************************************************************)
\* output.extend(...) of a function that returns
Emitted(ls, counter) == [panic |-> FALSE, lines |-> ls, counter |-> counter]

\* unreachable!()
Unreachable(counter) == [panic |-> TRUE, lines |-> <<>>, counter |-> counter]

\* a slip: the stack pointer is not put back above the result
BinaryOp_NoRestore(combine) ==
    <<"@SP", "M=M-1", "A=M", "D=M", "@SP", "M=M-1", "A=M", combine>>

\* add, sub, and, or: the ten lines around the one that combines
BinaryOp(combine) ==
    <<"@SP", "M=M-1", "A=M", "D=M", "@SP", "M=M-1", "A=M", combine, "@SP", "M=M+1">>

\* neg, not
UnaryOp(transform) ==
    <<"@SP", "M=M-1", "A=M", transform, "@SP", "M=M+1">>

jump_condition(cmd) ==
    CASE cmd = "eq" -> "JEQ"
      [] cmd = "gt" -> "JGT"
      [] cmd = "lt" -> "JLT"

\* eq, gt, lt with the labels of this comparison
Comparison(cmd, true_label, end_label) ==
    << "@SP", "M=M-1", "A=M", "D=M", "@SP", "M=M-1", "A=M", "D=M-D",
       "@" \o true_label, "D;" \o jump_condition(cmd),
       "@SP", "A=M", "M=0",
       "@" \o end_label, "0;JMP",
       "(" \o true_label \o ")",
       "@SP", "A=M", "M=-1",
       "(" \o end_label \o ")",
       "@SP", "M=M+1" >>

\* a slip: the counter is not advanced after the labels are minted
write_arithmetic_NoIncrement(cmd, counter) ==
    CASE cmd = "add" -> Emitted(BinaryOp("M=D+M"), counter)
      [] cmd = "sub" -> Emitted(BinaryOp("M=M-D"), counter)
      [] cmd = "neg" -> Emitted(UnaryOp("M=-M"), counter)
      [] cmd \in {"eq", "gt", "lt"} ->
            Emitted(Comparison(cmd, "TRUE_" \o FormatInt(counter),
                                    "END_" \o FormatInt(counter)),
                    counter)
      [] cmd = "and" -> Emitted(BinaryOp("M=D&M"), counter)
      [] cmd = "or"  -> Emitted(BinaryOp("M=D|M"), counter)
      [] cmd = "not" -> Emitted(UnaryOp("M=!M"), counter)
      [] OTHER -> Unreachable(counter)

write_arithmetic(cmd, counter) ==
    CASE cmd = "add" -> Emitted(BinaryOp("M=D+M"), counter)
      [] cmd = "sub" -> Emitted(BinaryOp("M=M-D"), counter)
      [] cmd = "neg" -> Emitted(UnaryOp("M=-M"), counter)
      [] cmd \in {"eq", "gt", "lt"} ->
            Emitted(Comparison(cmd, "TRUE_" \o FormatInt(counter),
                                    "END_" \o FormatInt(counter)),
                    counter + 1)
      [] cmd = "and" -> Emitted(BinaryOp("M=D&M"), counter)
      [] cmd = "or"  -> Emitted(BinaryOp("M=D|M"), counter)
      [] cmd = "not" -> Emitted(UnaryOp("M=!M"), counter)
      [] OTHER -> Unreachable(counter)

\* the value at the stack pointer's address is D, and the pointer goes up
PushD == <<"@SP", "A=M", "M=D", "@SP", "M=M+1">>

\* push argument | local | this | that: the value at base + index
PushFromBase(base, index) ==
    <<"@" \o FormatInt(index), "D=A", "@" \o base, "A=D+M", "D=M">> \o PushD

write_push(segment, index, filename) ==
    CASE segment = "argument" -> Emitted(PushFromBase("ARG", index), 0)
      [] segment = "local"    -> Emitted(PushFromBase("LCL", index), 0)
      [] segment = "static"   ->
            Emitted(<<"@" \o filename \o "." \o FormatInt(index), "D=M">> \o PushD, 0)
      [] segment = "constant" ->
            Emitted(<<"@" \o FormatInt(index), "D=A">> \o PushD, 0)
      [] segment = "this"     -> Emitted(PushFromBase("THIS", index), 0)
      [] segment = "that"     -> Emitted(PushFromBase("THAT", index), 0)
      [] segment = "pointer"  ->
            Emitted(<<"@" \o (IF index = 0 THEN "THIS" ELSE "THAT"), "D=M">> \o PushD, 0)
      [] segment = "temp"     ->
            Emitted(<<"@" \o FormatInt(5 + index), "D=M">> \o PushD, 0)
      [] OTHER -> Unreachable(0)

\* the pointer goes down and D is the value it now addresses
PopD == <<"@SP", "M=M-1", "A=M", "D=M">>

\* a slip: the value is fetched before the pointer goes down
PopToBase_FetchFirst(base, index) ==
    <<"@" \o FormatInt(index), "D=A", "@" \o base, "D=D+M", "@R13", "M=D">>
    \o <<"@SP", "A=M", "D=M", "@SP", "M=M-1">> \o <<"@R13", "A=M", "M=D">>

\* pop argument | local | this | that: base + index is kept in R13
PopToBase(base, index) ==
    <<"@" \o FormatInt(index), "D=A", "@" \o base, "D=D+M", "@R13", "M=D">>
    \o PopD \o <<"@R13", "A=M", "M=D">>

write_pop(segment, index, filename) ==
    CASE segment = "argument" -> Emitted(PopToBase("ARG", index), 0)
      [] segment = "local"    -> Emitted(PopToBase("LCL", index), 0)
      [] segment = "static"   ->
            Emitted(PopD \o <<"@" \o filename \o "." \o FormatInt(index), "M=D">>, 0)
      [] segment = "this"     -> Emitted(PopToBase("THIS", index), 0)
      [] segment = "that"     -> Emitted(PopToBase("THAT", index), 0)
      [] segment = "pointer"  ->
            Emitted(PopD \o <<"@" \o (IF index = 0 THEN "THIS" ELSE "THAT"), "M=D">>, 0)
      [] segment = "temp"     ->
            Emitted(PopD \o <<"@" \o FormatInt(5 + index), "M=D">>, 0)
      [] OTHER -> Unreachable(0)

write_label(label) == <<"(" \o label \o ")">>

write_goto(label) == <<"@" \o label, "0;JMP">>

\* a slip: the jump is taken on -1 only (D+1 is zero)
write_if_goto_OnMinusOne(label) == PopD \o <<"D=D+1", "@" \o label, "D;JEQ">>

write_if_goto(label) == PopD \o <<"@" \o label, "D;JNE">>

\* the match of VMTranslator::translate on the command's type
WriteCommand(cmd, counter, filename) ==
    CASE cmd.command_type = "Arithmetic" -> write_arithmetic(cmd.arg1, counter)
      [] cmd.command_type = "Push" ->
            [write_push(cmd.arg1, cmd.arg2, filename) EXCEPT !.counter = counter]
      [] cmd.command_type = "Pop" ->
            [write_pop(cmd.arg1, cmd.arg2, filename) EXCEPT !.counter = counter]
      [] cmd.command_type = "Label"  -> Emitted(write_label(cmd.arg1), counter)
      [] cmd.command_type = "Goto"   -> Emitted(write_goto(cmd.arg1), counter)
      [] cmd.command_type = "IfGoto" -> Emitted(write_if_goto(cmd.arg1), counter)

\* the name translate is given for the unit (the tests' "test")
UnitName == "test"

(***************************************************************************)
(* The VM translator: VMTranslator::translate, a command at a step.        *)
(***************************************************************************)
\* one turn of the loop: parse, write, advance.  A parse error returns Err
\* and the writer is dropped; unreachable!() ends the process.
TranslateStep ==
    /\ vm_pc = "translate"
    /\ current < Len(lines)
    /\ LET cmd == ParseLine(lines[current + 1])
           w   == WriteCommand(cmd, label_counter, UnitName)
       IN  IF ~cmd.ok
           THEN /\ vm_pc' = "error"
                /\ vm_err' = cmd.err
                /\ output' = <<>>
                /\ UNCHANGED <<current, label_counter>>
           ELSE IF w.panic
           THEN /\ vm_pc' = "panic"
                /\ output' = <<>>
                /\ UNCHANGED <<current, label_counter, vm_err>>
           ELSE /\ output' = output \o w.lines
                /\ label_counter' = w.counter
                /\ current' = current + 1
                /\ UNCHANGED <<vm_pc, vm_err>>
    /\ UNCHANGED lines
    /\ UNCHANGED <<asm_vars, cpu_vars>>

\* Ok(code_writer.get_output())
TranslateDone ==
    /\ vm_pc = "translate"
    /\ current >= Len(lines)
    /\ vm_pc' = "done"
    /\ UNCHANGED <<lines, current, output, label_counter, vm_err>>
    /\ UNCHANGED <<asm_vars, cpu_vars>>

VMNext ==
    \/ TranslateStep
    \/ TranslateDone

(***************************************************************************)
(* From the translator to the assembler: the .asm file.                    *)
(***************************************************************************)
\* Vec<String>::join("\n")
RECURSIVE JoinLines(_)
JoinLines(ls) ==
    IF Len(ls) = 0 THEN ""
    ELSE IF Len(ls) = 1 THEN ls[1]
    ELSE ls[1] \o "\n" \o JoinLines(Tail(ls))

\* BufRead::lines of a file holding text
ReadLines(text) == IF text = "" THEN <<>> ELSE split(text, "\n")

\* position of the first "//" in s, 0 when there is none
RECURSIVE FindComment(_, _)
FindComment(s, i) ==
    IF i + 1 > Len(s) THEN 0
    ELSE IF SubSeq(s, i, i + 1) = "//" THEN i
    ELSE FindComment(s, i + 1)

\* str::trim
RECURSIVE Trim(_)
Trim(s) ==
    IF Len(s) = 0 THEN s
    ELSE IF IsSpace(CharAt(s, 1)) THEN Trim(StrFrom(s, 1))
    ELSE IF IsSpace(CharAt(s, Len(s))) THEN Trim(SubSeq(s, 1, Len(s) - 1))
    ELSE s

StripLine(line) ==
    LET c == FindComment(line, 1)
    IN  Trim(IF c = 0 THEN line ELSE SubSeq(line, 1, c - 1))

\* preprocess: comments cut, lines trimmed, empty lines dropped
RECURSIVE preprocess(_)
preprocess(ls) ==
    IF Len(ls) = 0 THEN <<>>
    ELSE (IF StripLine(ls[1]) = "" THEN <<>> ELSE <<StripLine(ls[1])>>)
         \o preprocess(Tail(ls))

\* translate_file writes the output to the .asm file; the assembler's main
\* reads and preprocesses it, and calls build_symbol_table
AssembleTranslation ==
    /\ vm_pc = "done"
    /\ asm_pc = "off"
    /\ code' = preprocess(ReadLines(JoinLines(output)))
    /\ asm_pc' = "init"
    /\ UNCHANGED <<symbol_table, current_line_num, not_defined_variable,
                   binary_code, asm_i, asm_err>>
    /\ UNCHANGED <<vm_vars, cpu_vars>>

(***************************************************************************)
(* The target machine: the Hack CPU on the assembled words.                *)
(***************************************************************************)
Word == 65536

Not16(x) == Word - 1 - x

\* the bitwise and of two words of n bits
RECURSIVE BitAnd(_, _, _)
BitAnd(x, y, n) ==
    IF n = 0 THEN 0
    ELSE 2 * BitAnd(x \div 2, y \div 2, n - 1) + (x % 2) * (y % 2)

\* the ALU: c is the six control bits zx nx zy ny f no
ALU(x, y, c) ==
    LET on(i) == CharAt(c, i) = "1"
        x1 == IF on(1) THEN 0 ELSE x
        x2 == IF on(2) THEN Not16(x1) ELSE x1
        y1 == IF on(3) THEN 0 ELSE y
        y2 == IF on(4) THEN Not16(y1) ELSE y1
        o  == IF on(5) THEN (x2 + y2) % Word ELSE BitAnd(x2, y2, 16)
    IN  IF on(6) THEN Not16(o) ELSE o

\* the word the program counter is at, as the .hack file holds it
Fetch == SubSeq(binary_code[PC + 1], 1, 16)

\* the machine is given the assembled program; its data memory holds the
\* stack pointer, the local base and anything else
Load ==
    /\ asm_pc = "done"
    /\ cpu_pc = "off"
    /\ vm_pc = "done"
    /\ \E s \in {13, 16, 17}, l \in {0, 13, 16, 20}, fill \in {0, Word - 1} :
          RAM' = [a \in 0..(RamSize - 1) |->
                    IF a = symbol_table["SP"] THEN s
                    ELSE IF a = symbol_table["LCL"] THEN l
                    ELSE fill]
    /\ ram0' = RAM'
    /\ A' = 0
    /\ D' = 0
    /\ PC' = 0
    /\ cpu_pc' = "run"
    /\ UNCHANGED <<asm_vars, vm_vars>>

\* one instruction
CpuStep ==
    /\ cpu_pc = "run"
    /\ PC < Len(binary_code)
    /\ LET w == Fetch
           bit(i) == CharAt(w, i) = "1"
       IN  IF ~bit(1)
           THEN /\ A' = BitsValue(SubSeq(w, 2, 16))
                /\ PC' = PC + 1
                /\ UNCHANGED <<D, RAM, cpu_pc>>
           ELSE IF (bit(4) \/ bit(13)) /\ A \notin DOMAIN RAM
           THEN /\ cpu_pc' = "fault"
                /\ UNCHANGED <<A, D, PC, RAM>>
           ELSE LET y    == IF bit(4) THEN RAM[A] ELSE A
                    out  == ALU(D, y, SubSeq(w, 5, 10))
                    neg  == out >= Word \div 2
                    zero == out = 0
                    take == \/ (bit(14) /\ neg)
                            \/ (bit(15) /\ zero)
                            \/ (bit(16) /\ ~neg /\ ~zero)
                IN  /\ A' = IF bit(11) THEN out ELSE A
                    /\ D' = IF bit(12) THEN out ELSE D
                    /\ RAM' = IF bit(13) THEN [RAM EXCEPT ![A] = out] ELSE RAM
                    /\ PC' = IF take THEN A ELSE PC + 1
                    /\ UNCHANGED cpu_pc
    /\ UNCHANGED ram0
    /\ UNCHANGED <<asm_vars, vm_vars>>

\* the program counter has left the program
CpuHalt ==
    /\ cpu_pc = "run"
    /\ PC >= Len(binary_code)
    /\ cpu_pc' = "halt"
    /\ UNCHANGED <<RAM, A, D, PC, ram0>>
    /\ UNCHANGED <<asm_vars, vm_vars>>

(***************************************************************************)
(* The programs the assembler is run on.                                   *)
(***************************************************************************)
SeqsUpTo(S, n) == UNION {[1..k -> S] : k \in 0..n}

\* lines of every kind: numeric, predefined, label and variable operands,
\* label declarations (one of them forward-referenced), compute
\* instructions, and one the comp table rejects
AsmVocab ==
    { "@2", "D=A", "(LOOP)", "(END)", "@LOOP", "@END", "@i", "@j", "@SP",
      "0;JMP", "D=D+2" }

\* spec section 8, concrete scenario 1
Scenario1 == <<"@2", "D=A", "@3", "M=D">>

\* one address instruction for each operand the claims speak of, and the
\* first operands past 15 and past 16 bits
AddressOperands == (0..(2^15 - 1)) \cup {2^15, 2^16 - 1, 2^16}

AddressLines == {"@" \o ToDecimal(n) : n \in AddressOperands}

\* compute instructions [dest=]comp[;jump]; <<>> is an absent part
DestTokens == {"A", "D", "M", "MD", "AM", "AD", "AMD", "MDA", "DM", "X"}

CompExtras == {"D+2", "A+D", "M+D", "d", "D+1+1"}

JumpTokens == {"JGT", "JEQ", "JGE", "JLT", "JNE", "JLE", "JMP", "JXX", "jmp"}

Opt(S) == {<<>>} \cup {<<x>> : x \in S}

RenderC(dest, comp, jump) ==
    (IF dest = <<>> THEN "" ELSE dest[1] \o "=")
    \o comp
    \o (IF jump = <<>> THEN "" ELSE ";" \o jump[1])

ComputeLines ==
    { RenderC(d, c, j) : d \in Opt(DestTokens),
                         c \in CompMnemonics \cup CompExtras,
                         j \in Opt(JumpTokens) }

\* every token of one to three characters over the characters of the table
CompAlphabet == {"0", "1", "-", "!", "D", "A", "M", "+", "&", "|"}

CompTokens ==
    CompAlphabet
    \cup {a \o b : a \in CompAlphabet, b \in CompAlphabet}
    \cup {a \o b \o c : a \in CompAlphabet, b \in CompAlphabet, c \in CompAlphabet}

\* the operands at the edges of 15 and of 16 bits
EdgeAddressLines == {"@0", "@32767", "@32768", "@65535", "@65536"}

AsmPrograms ==
    SeqsUpTo(AsmVocab, MaxLines)
    \cup {Scenario1}
    \cup {<<l>> : l \in EdgeAddressLines \cup ComputeLines \cup CompTokens}

\* the one-line programs @n
AddressPrograms == {<<l>> : l \in AddressLines}

(***************************************************************************)
(* The programs the translator is run on.                                  *)
(***************************************************************************)
\* commands of every type, well-formed and not
VMVocab ==
    { "push constant 7", "pop local 0", "add", "eq", "lt",
      "label LOOP", "goto LOOP", "if-goto LOOP", "label TRUE_0",
      "label 1bad", "label", "call f 2", "push constant -1", "push foo 0" }

\* every label token of one to three characters over these
LabelAlphabet == {"a", "Z", "_", ".", ":", "1", "-"}

LabelTokens ==
    LabelAlphabet
    \cup {a \o b : a \in LabelAlphabet, b \in LabelAlphabet}
    \cup {a \o b \o c : a \in LabelAlphabet, b \in LabelAlphabet, c \in LabelAlphabet}

LabelCommands == {"label", "goto", "if-goto"}

\* index tokens: integers of either sign, and tokens that are no integer
IndexTokens == {"0", "2", "+2", "-1", "-2", "x", "1x", "-", "2.0"}

VMPrograms ==
    SeqsUpTo(VMVocab, MaxCmds)
    \cup {<<c \o " " \o t>> : c \in LabelCommands, t \in LabelTokens}
    \cup {<<c>> : c \in LabelCommands}
    \cup {<<"eq", "eq">>, <<"gt", "neg", "gt">>, <<"function f 0", "return">>}
    \cup {<<c \o " " \o seg \o " " \o t>> : c \in {"push", "pop"},
                                           seg \in {"local", "bar"},
                                           t \in IndexTokens}

(***************************************************************************)
(* The programs that are translated, assembled and run.                    *)
(***************************************************************************)
\* constants with each bit alone, the bits below each, and the scenario's
PushedConstants ==
    {0, 7, 8} \cup {2^i : i \in 0..14} \cup {2^i - 1 : i \in 1..15}

OperandConstants == {0, 1, 7, 8, 21845, 32767}

PushConstant(k) == "push constant " \o ToDecimal(k)

\* an operand of either sign as commands leave it on the stack: a constant,
\* or a constant and neg (its negation) or not (minus it, minus one)
SignedOperands ==
    { [text |-> <<PushConstant(0)>>, val |-> 0],
      [text |-> <<PushConstant(1)>>, val |-> 1],
      [text |-> <<PushConstant(32767)>>, val |-> 32767],
      [text |-> <<PushConstant(1), "neg">>, val |-> -1],
      [text |-> <<PushConstant(1), "not">>, val |-> -2],
      [text |-> <<PushConstant(32767), "neg">>, val |-> -32767],
      [text |-> <<PushConstant(32767), "not">>, val |-> -32768] }

ComparisonPrograms ==
    {x.text \o y.text \o <<cmp>> :
        x \in SignedOperands, y \in SignedOperands, cmp \in {"eq", "gt", "lt"}}

\* a value is pushed, if-goto SKIP follows, and the commands on either path
\* leave different stacks
BranchPrograms ==
    {v.text \o <<"if-goto SKIP", PushConstant(5), "label SKIP", PushConstant(9)>> :
        v \in SignedOperands}

\* commands whose code names each register of the translator
RegisterPrograms ==
    { <<"push argument 1">>, <<"push this 0">>, <<"push that 0">>,
      <<"push constant 7", "pop that 0">>, <<"push constant 7", "pop pointer 1">>,
      <<"push pointer 0">> }

RunPrograms ==
    {<<PushConstant(k), "pop local 0">> : k \in PushedConstants}
    \cup {<<PushConstant(a), PushConstant(b), op>> :
              a \in OperandConstants, b \in OperandConstants,
              op \in {"add", "sub", "and", "or"}}
    \cup ComparisonPrograms
    \cup BranchPrograms
    \cup RegisterPrograms

(***************************************************************************)
(* Initial states.                                                         *)
(***************************************************************************)
AsmIdle ==
    /\ code = <<>>
    /\ symbol_table = EmptyTable
    /\ current_line_num = 0
    /\ not_defined_variable = 0
    /\ binary_code = <<>>
    /\ asm_pc = "off"
    /\ asm_i = 0
    /\ asm_err = ""

VMIdle ==
    /\ lines = <<>>
    /\ current = 0
    /\ output = <<>>
    /\ label_counter = 0
    /\ vm_pc = "off"
    /\ vm_err = ""

CpuIdle ==
    /\ RAM = <<>>
    /\ ram0 = <<>>
    /\ A = 0
    /\ D = 0
    /\ PC = 0
    /\ cpu_pc = "off"

\* main of the assembler, at the call of build_symbol_table(&code)
AsmStart(programs) ==
    /\ code \in programs
    /\ symbol_table = EmptyTable
    /\ current_line_num = 0
    /\ not_defined_variable = 0
    /\ binary_code = <<>>
    /\ asm_pc = "init"
    /\ asm_i = 0
    /\ asm_err = ""
    /\ VMIdle
    /\ CpuIdle

AsmInit == AsmStart(AsmPrograms)

AddrInit == AsmStart(AddressPrograms)

\* the assembler on programs of every kind of line
SpecAsm == AsmInit /\ [][AsmNext]_vars

\* the assembler on each address instruction @n
SpecAddr == AddrInit /\ [][AsmNext]_vars


\* translate, after Parser::new(input) and CodeWriter::new(name)
VMStart(programs) ==
    /\ lines \in programs
    /\ current = 0
    /\ output = <<>>
    /\ label_counter = 0
    /\ vm_pc = "translate"
    /\ vm_err = ""

VMInit == VMStart(VMPrograms) /\ AsmIdle /\ CpuIdle

\* the translator on programs of every kind of command
SpecVM == VMInit /\ [][VMNext]_vars

RunInit == VMStart(RunPrograms) /\ AsmIdle /\ CpuIdle

RunNext ==
    \/ TranslateStep
    \/ TranslateDone
    \/ AssembleTranslation
    \/ BuildInit
    \/ Pass1Step
    \/ Pass1Done
    \/ Pass2Step
    \/ Pass2Done
    \/ AssembleStep
    \/ AssembleDone
    \/ Load
    \/ CpuStep
    \/ CpuHalt

\* a VM program translated, the translation assembled, the words run
SpecRun == RunInit /\ [][RunNext]_vars

Init == AsmInit \/ AddrInit \/ VMInit \/ RunInit

Next == RunNext

Spec == Init /\ [][Next]_vars

(***************************************************************************)
(* Properties of the assembler.                                            *)
(***************************************************************************)
CountChar(s, c) == Cardinality({i \in 1..Len(s) : CharAt(s, i) = c})

IsBits(s, n) == Len(s) = n /\ \A i \in 1..n : CharAt(s, i) \in {"0", "1"}

\* the lines of the program that are not label declarations, in order
NonLabelLines == SelectSeq(code, LAMBDA l : ~IsLabelLine(l))

\* the place in the output of the word of line k, not a label
OutIndex(k) == Cardinality({m \in 1..k : ~IsLabelLine(code[m])})

\* line k has been assembled
Assembled(k) == asm_pc = "done" \/ (asm_pc = "assemble" /\ k < asm_i)

\* a line of the form [dest=]comp[;jump], and its three parts by position
IsCForm(line) ==
    /\ ~starts_with(line, "@")
    /\ ~IsLabelLine(line)
    /\ CountChar(line, ";") <= 1
    /\ CountChar(line, "=") <= 1
    /\ (contains(line, ";") /\ contains(line, "=")
            => FindFrom(line, "=", 1) < FindFrom(line, ";", 1))

FormComp(line) ==
    LET e  == FindFrom(line, "=", 1)
        sc == FindFrom(line, ";", 1)
    IN  SubSeq(line, e + 1, IF sc = 0 THEN Len(line) ELSE sc - 1)

FormDestBits(line) ==
    LET e    == FindFrom(line, "=", 1)
        dest == SubSeq(line, 1, e - 1)
        flag(c) == IF e > 0 /\ contains(dest, c) THEN "1" ELSE "0"
    IN  flag("A") \o flag("D") \o flag("M")

\* the seven jump mnemonics; the i-th one has the code i in three bits
JumpNames == <<"JGT", "JEQ", "JGE", "JLT", "JNE", "JLE", "JMP">>

FormJumpBits(line) ==
    LET sc   == FindFrom(line, ";", 1)
        jump == SubSeq(line, sc + 1, Len(line))
    IN  IF sc > 0 /\ \E i \in 1..7 : JumpNames[i] = jump
        THEN ToBinary(CHOOSE i \in 1..7 : JumpNames[i] = jump, 3)
        ELSE "000"

\* C1: a compute instruction [dest=]comp[;jump] with a recognized comp is
\* assembled to "111", the 7 bits of comp_table(comp), the three A, D, M
\* flags of dest by containment (000 without '='), and the 3 bits of the jump
\* (000 without ';' or for an unrecognized mnemonic); and @2, D=A, @3, M=D is
\* assembled to the four words of scenario 1.
C1_ComputeWord ==
    /\ \A k \in 1..Len(code) :
          (/\ Assembled(k)
           /\ IsCForm(code[k])
           /\ comp_table(FormComp(code[k])).ok)
          => SubSeq(binary_code[OutIndex(k)], 1, 16)
               = "111" \o comp_table(FormComp(code[k])).val
                       \o FormDestBits(code[k]) \o FormJumpBits(code[k])
    /\ (code = Scenario1 /\ asm_pc = "done")
          => binary_code = << "0000000000000010\n", "1110110000010000\n",
                              "0000000000000011\n", "1110001100001000\n" >>

C1_Witness ==
    /\ asm_pc = "done"
    /\ code = <<"MD=D+1;JGE">>
    /\ binary_code = <<"1110011111011011\n">>

\* C2: for 0 <= n <= 32767 the address instruction @n is assembled to the
\* 16 bits of n, zero-extended: bit i from the left is (n div 2^(16-i)) mod 2.
C2_AddressWord ==
    \A k \in 1..Len(code) :
        LET n == DecimalValue(StrFrom(code[k], 1))
        IN  (/\ Assembled(k)
             /\ starts_with(code[k], "@")
             /\ AllDigits(StrFrom(code[k], 1))
             /\ n <= 2^15 - 1
             /\ code[k] = "@" \o ToDecimal(n))
            => /\ Len(binary_code[OutIndex(k)]) = 17
               /\ \A i \in 1..16 :
                     CharAt(binary_code[OutIndex(k)], i)
                        = (IF (n \div 2^(16 - i)) % 2 = 1 THEN "1" ELSE "0")

C2_Witness ==
    /\ asm_pc = "done"
    /\ code = <<"@32767">>
    /\ binary_code = <<"0111111111111111\n">>

\* C3: when assemble succeeds its output has one line for each line of the
\* program that is not a label declaration, in program order, each of 16
\* characters 0 or 1 and a newline; a label declaration adds no line.
C3_OutputShape ==
    /\ asm_pc = "assemble"
          => Len(binary_code) = (IF asm_i > 1 THEN OutIndex(asm_i - 1) ELSE 0)
    /\ asm_pc = "done"
          => /\ Len(binary_code) = Len(NonLabelLines)
             /\ \A k \in 1..Len(binary_code) :
                   /\ Len(binary_code[k]) = 17
                   /\ IsBits(SubSeq(binary_code[k], 1, 16), 16)
                   /\ CharAt(binary_code[k], 17) = "\n"
                   /\ binary_code[k] = AssembleLine(NonLabelLines[k], symbol_table).val

C3_Witness ==
    /\ asm_pc = "done"
    /\ code = <<"(LOOP)", "@LOOP", "0;JMP">>
    /\ binary_code = <<"0000000000000000\n", "1110101010000111\n">>

\* C4: once build_symbol_table has run both passes, every address operand of
\* the program that is not numeric is a key of the table, and assemble never
\* reports an undefined symbol, a label referenced before its declaration
\* included.
C4_SymbolsResolve ==
    /\ asm_pc \in {"assemble", "done", "error"}
          => \A k \in 1..Len(code) :
                (starts_with(code[k], "@") /\ ~ParseU16(StrFrom(code[k], 1)).ok)
                    => StrFrom(code[k], 1) \in DOMAIN symbol_table
    /\ asm_err # "undefined symbol"

C4_Witness ==
    /\ asm_pc = "done"
    /\ code = <<"@END", "@i", "(END)">>
    /\ binary_code = <<"0000000000000010\n", "0000000000010000\n">>

\* the seven bits of the comp field of the word of line k
CompField(k) == SubSeq(binary_code[OutIndex(k)], 4, 10)

\* C5: comp_table is defined on exactly the 28 mnemonics, 18 with a-bit 0
\* and 10 with a-bit 1, gives each a code of 7 bits, gives no two of them the
\* same code, and fails on every other token.
C5_CompTable ==
    /\ Cardinality(CompMnemonics) = 28
    /\ \A k \in 1..Len(code) :
          IsCForm(code[k]) =>
             /\ Assembled(k)
                  => /\ FormComp(code[k]) \in CompMnemonics
                     /\ IsBits(CompField(k), 7)
                     /\ \A u \in CompMnemonics :
                           (comp_table(u).ok /\ comp_table(u).val = CompField(k))
                               <=> u = FormComp(code[k])
                     /\ Cardinality({u \in CompMnemonics :
                                        CharAt(comp_table(u).val, 1) = "0"}) = 18
                     /\ Cardinality({u \in CompMnemonics :
                                        CharAt(comp_table(u).val, 1) = "1"}) = 10
             /\ (asm_pc = "error" /\ k = asm_i)
                  => /\ FormComp(code[k]) \notin CompMnemonics
                     /\ asm_err = "invalid comp pattern"

C5_Witness ==
    /\ asm_pc = "error"
    /\ code = <<"A+D">>
    /\ asm_err = "invalid comp pattern"


(***************************************************************************)
(* Properties of the translator.                                           *)
(***************************************************************************)
\* the name of command j and its first operand (<<>> when there is none)
CommandName(j) == SplitWs(lines[j])[1]

CommandOperand(j) ==
    IF Len(SplitWs(lines[j])) >= 2 THEN <<SplitWs(lines[j])[2]>> ELSE <<>>

\* translate returned Err at command j
FailedAt(j) == vm_pc = "error" /\ current + 1 = j

\* command j has been translated
Translated(j) == vm_pc \in {"translate", "done"} /\ j <= current

\* the last n lines of the output
OutputTail(n) == SubSeq(output, Len(output) - n + 1, Len(output))

\* C8: translate accepts `call f 2` and a `return` in f (and the code it
\* emits removes the two arguments and leaves one value): translate never
\* returns Err at a call, function or return command.
C8_CallReturnAccepted ==
    \A j \in 1..Len(lines) :
        CommandName(j) \in {"call", "function", "return"} => ~FailedAt(j)

\* ^[A-Za-z_.:][A-Za-z0-9_.:]*$
MatchesLabelGrammar(t) ==
    LET first == {CharAt(Letters, i) : i \in 1..Len(Letters)} \cup {"_", ".", ":"}
        rest  == first \cup {CharAt(Digits, i) : i \in 1..Len(Digits)}
    IN  /\ Len(t) >= 1
        /\ CharAt(t, 1) \in first
        /\ \A i \in 1..Len(t) : CharAt(t, i) \in rest

\* C9: a label, goto or if-goto whose label token is missing or does not
\* match ^[A-Za-z_.:][A-Za-z0-9_.:]*$ makes translate return an error, with
\* no code generated for it; one whose token matches is accepted and its
\* label text is emitted unchanged.
C9_LabelValidated ==
    \A j \in 1..Len(lines) :
        LET parts == SplitWs(lines[j])
            name  == parts[1]
            valid == Len(parts) >= 2 /\ MatchesLabelGrammar(parts[2])
        IN  name \in LabelCommands =>
                /\ Translated(j) => valid
                /\ FailedAt(j) => (~valid /\ output = <<>>)
                /\ (Translated(j) /\ j = current) =>
                      CASE name = "label" ->
                              OutputTail(1) = <<"(" \o parts[2] \o ")">>
                        [] name = "goto" ->
                              OutputTail(2) = <<"@" \o parts[2], "0;JMP">>
                        [] name = "if-goto" ->
                              OutputTail(2) = <<"@" \o parts[2], "D;JNE">>

C9_Witness ==
    /\ vm_pc = "error"
    /\ lines = <<"goto LOOP", "label 1bad">>
    /\ current = 1
    /\ vm_err = "Invalid label"

ComparisonNames == {"eq", "gt", "lt"}

\* the comparisons among the first n commands
Comparisons(n) == {j \in 1..n : CommandName(j) \in ComparisonNames}

HasPrefix(s, prefix) ==
    Len(s) >= Len(prefix) /\ SubSeq(s, 1, Len(prefix)) = prefix

IsMintedShape(name) == HasPrefix(name, "TRUE_") \/ HasPrefix(name, "END_")

\* a label command already translated whose name looks like a minted one
UserLabelOfMintedShape ==
    \E j \in 1..current :
        /\ CommandName(j) = "label"
        /\ IsMintedShape(CommandOperand(j)[1])

\* C10: within a unit, label_counter is the number of comparisons (eq, gt,
\* lt) translated so far, each one having advanced it once, and the
\* TRUE_n / END_n labels of different comparisons are pairwise distinct.
C10_LabelCounter ==
    /\ label_counter = Cardinality(Comparisons(current))
    /\ (vm_pc \in {"translate", "done"} /\ ~UserLabelOfMintedShape) =>
          LET minted == {i \in 1..Len(output) :
                            /\ starts_with(output[i], "(")
                            /\ IsMintedShape(StrFrom(output[i], 1))}
              Occurs(l) == Cardinality({i \in minted : output[i] = l})
          IN  /\ \A n \in 0..(label_counter - 1) :
                    /\ Occurs("(TRUE_" \o ToDecimal(n) \o ")") = 1
                    /\ Occurs("(END_" \o ToDecimal(n) \o ")") = 1
              /\ Cardinality(minted) = 2 * label_counter

C10_Witness ==
    /\ vm_pc = "done"
    /\ lines = <<"eq", "eq">>
    /\ label_counter = 2
    /\ output[16] = "(TRUE_0)"
    /\ output[38] = "(TRUE_1)"


(***************************************************************************)
(* Properties of the translated code when it runs.                         *)
(***************************************************************************)
SPAddr  == symbol_table["SP"]
LCLAddr == symbol_table["LCL"]
R13Addr == symbol_table["R13"]

\* command j is `push constant k`; the k
IsPushConstant(j) ==
    LET c == ParseLine(lines[j])
    IN  c.ok /\ c.command_type = "Push" /\ c.arg1 = "constant"

Pushed(j) == ParseLine(lines[j]).arg2

\* the program is `push constant K`, `pop local 0` with K in 0..32767, and
\* it has been given to the machine
C6_Case ==
    /\ cpu_pc \in {"run", "halt", "fault"}
    /\ Len(lines) = 2
    /\ IsPushConstant(1)
    /\ Pushed(1) \in 0..(2^15 - 1)
    /\ lines[2] = "pop local 0"

\* the push has stored K where the pointer was and raised the pointer; at
\* the end local slot 0 holds K and the pointer is where it started
C6_Outcome ==
    /\ cpu_pc # "fault"
    /\ (cpu_pc = "run" /\ PC = Len(write_push("constant", Pushed(1), UnitName).lines))
          => /\ RAM[ram0[SPAddr]] = Pushed(1)
             /\ RAM[SPAddr] = ram0[SPAddr] + 1
    /\ cpu_pc = "halt"
          => /\ RAM[RAM[LCLAddr] + 0] = Pushed(1)
             /\ RAM[SPAddr] = ram0[SPAddr]
             /\ RAM[LCLAddr] = ram0[LCLAddr]

\* the stack slot, R13 and local slot 0 are no pointer register
NoPointerOverlap ==
    /\ ram0[SPAddr] \notin {SPAddr, LCLAddr}
    /\ R13Addr \notin {SPAddr, LCLAddr}
    /\ ram0[LCLAddr] \notin {SPAddr, LCLAddr}

\* C6 as stated: for K in 0..32767 the code of `push constant K`,
\* `pop local 0`, run from any memory where the stack slot, R13 and the
\* local segment do not overlap the pointer registers, leaves K in
\* RAM[RAM[LCL]+0] and the stack pointer where it started.
C6_AsStated == (C6_Case /\ NoPointerOverlap) => C6_Outcome

\* C6, amended: the same, from any memory where moreover the stack slot is
\* not R13, the register in which the pop keeps the address it stores to.
C6_PushPopRoundTrip ==
    (C6_Case /\ NoPointerOverlap /\ ram0[SPAddr] # R13Addr) => C6_Outcome

C6_Witness ==
    /\ cpu_pc = "halt"
    /\ lines = <<"push constant 32767", "pop local 0">>
    /\ ram0[SPAddr] = 16
    /\ ram0[LCLAddr] = 20
    /\ ram0[20] = 0
    /\ RAM[20] = 32767
    /\ RAM[SPAddr] = 16

\* what a binary operation leaves for second operand a and top operand b
BinaryResult(op, a, b) ==
    CASE op = "add" -> (a + b) % Word
      [] op = "sub" -> (a - b + Word) % Word
      [] op = "and" -> BitAnd(a, b, 16)
      [] op = "or"  -> a + b - BitAnd(a, b, 16)

\* C7: the code of `push constant a`, `push constant b`, `add`, run with the
\* stack pointer at s, leaves (a + b) mod 2^16 in RAM[s] and the pointer at
\* s+1 (15 for 7 and 8); each of add, sub, and, or pops two operands and
\* leaves one result, the pointer one lower than before it, and sub leaves
\* second - top.
C7_BinaryOps ==
    (/\ cpu_pc \in {"run", "halt", "fault"}
     /\ Len(lines) = 3
     /\ IsPushConstant(1)
     /\ IsPushConstant(2)
     /\ lines[3] \in {"add", "sub", "and", "or"})
    => /\ cpu_pc # "fault"
       /\ (cpu_pc = "run" /\ PC = Len(binary_code) - Len(BinaryOp("")))
             => RAM[SPAddr] = ram0[SPAddr] + 2
       /\ cpu_pc = "halt"
             => /\ RAM[SPAddr] = ram0[SPAddr] + 1
                /\ RAM[ram0[SPAddr]] = BinaryResult(lines[3], Pushed(1), Pushed(2))

C7_Witness ==
    /\ cpu_pc = "halt"
    /\ lines = <<"push constant 7", "push constant 8", "add">>
    /\ ram0[SPAddr] = 16
    /\ RAM[16] = 15
    /\ RAM[SPAddr] = 17


(***************************************************************************)
(* Properties of the translator: what it rejects.                          *)
(***************************************************************************)
\* a decimal integer: an optional sign and one digit or more
IsIntegerToken(t) ==
    LET body == IF starts_with(t, "+") \/ starts_with(t, "-") THEN StrFrom(t, 1) ELSE t
    IN  Len(body) >= 1 /\ AllDigits(body)

\* a decimal integer below zero
IsNegativeToken(t) ==
    /\ IsIntegerToken(t)
    /\ starts_with(t, "-")
    /\ DecimalValue(StrFrom(t, 1)) > 0

\* command j is a push or pop with a segment token and an index token
IsSegmentCommand(j) ==
    LET parts == SplitWs(lines[j])
    IN  parts[1] \in {"push", "pop"} /\ Len(parts) >= 3

\* C11: a push or pop whose index token is a negative integer (such as
\* `push constant -1`) or is not an integer is rejected by the parser with
\* the invalid-index error, and no code is generated for it.
C11_BadIndexRejected ==
    \A j \in 1..Len(lines) :
        (/\ IsSegmentCommand(j)
         /\ \/ IsNegativeToken(SplitWs(lines[j])[3])
            \/ ~IsIntegerToken(SplitWs(lines[j])[3]))
        => /\ ~Translated(j)
           /\ current + 1 = j => vm_pc \in {"translate", "error"}
           /\ FailedAt(j) => (vm_err = "Invalid index" /\ output = <<>>)

Segments ==
    {"argument", "local", "static", "constant", "this", "that", "pointer", "temp"}

\* C12: a push or pop whose segment token is outside {argument, local,
\* static, constant, this, that, pointer, temp} makes translate return an
\* error value, with no partial output; translation never ends abnormally
\* on such a command.
C12_UnknownSegmentIsError ==
    \A j \in 1..Len(lines) :
        (/\ IsSegmentCommand(j)
         /\ SplitWs(lines[j])[2] \notin Segments
         /\ IsIntegerToken(SplitWs(lines[j])[3])
         /\ ~IsNegativeToken(SplitWs(lines[j])[3]))
        => /\ ~Translated(j)
           /\ current + 1 = j => vm_pc \in {"translate", "error"}
           /\ FailedAt(j) => output = <<>>

(***************************************************************************)
(* Properties of the translator: the labels it declares.                   *)
(***************************************************************************)
\* the label commands of the program, and whether two share a name
LabelDeclarations == {j \in 1..Len(lines) : CommandName(j) = "label"}

NoLabelRepeated ==
    \A j \in LabelDeclarations, k \in LabelDeclarations :
        j # k => CommandOperand(j) # CommandOperand(k)

\* the lines (X) of the output
DeclaredAt == {i \in 1..Len(output) : starts_with(output[i], "(")}

\* C19: for a program the parser accepts and in which no label command
\* repeats a name, the output declares no assembly label (X) twice: the
\* TRUE_n / END_n labels never coincide with a user-declared one.
C19_LabelsDeclaredOnce ==
    (vm_pc = "done" /\ NoLabelRepeated) =>
        \A i \in DeclaredAt, k \in DeclaredAt : i # k => output[i] # output[k]

(***************************************************************************)
(* Properties of the assembler: addresses and the symbol table.            *)
(***************************************************************************)
\* C13: every word emitted for an address instruction has leading bit 0 (the
\* value fits in 15 bits), for every numeric operand the assembler accepts
\* and every symbol value in the table.
C13_AddressLeadingZero ==
    \A k \in 1..Len(code) :
        (Assembled(k) /\ starts_with(code[k], "@"))
            => /\ CharAt(binary_code[OutIndex(k)], 1) = "0"
               /\ BitsValue(SubSeq(binary_code[OutIndex(k)], 1, 16)) < 2^15

\* the lines pass 1 has gone through
Pass1Seen ==
    IF asm_pc = "pass1" THEN asm_i - 1
    ELSE IF asm_pc \in {"pass2", "assemble", "done", "error"} THEN Len(code)
    ELSE 0

\* the number of lines before line k that are not label declarations
RealLinesBefore(k) == Cardinality({m \in 1..(k - 1) : ~IsLabelLine(code[m])})

\* the label declarations among the first n lines
LabelLines(n) == {k \in 1..n : IsLabelLine(code[k])}

\* no line after k and among the first n declares the name line k declares
IsLastDeclaration(k, n) ==
    \A m \in LabelLines(n) : m > k => LabelName(code[m]) # LabelName(code[k])

\* pass 1's counter starts at 0 and counts the lines that are no label
CounterCountsRealLines ==
    asm_pc = "pass1" => current_line_num = RealLinesBefore(asm_i)

Pass2Seen ==
    IF asm_pc = "pass2" THEN asm_i - 1
    ELSE IF asm_pc \in {"assemble", "done", "error"} THEN Len(code)
    ELSE 0

\* an operand the assembler takes for a number: an unsigned 16-bit decimal
IsNumericOperand(t) ==
    LET body == IF starts_with(t, "+") THEN StrFrom(t, 1) ELSE t
    IN  /\ Len(body) >= 1
        /\ \A i \in 1..Len(body) : CharAt(body, i) \in {CharAt(Digits, d) : d \in 1..Len(Digits)}
        /\ DecimalValue(body) < 2^16

\* the table before pass 1
PredefinedTable == InsertAll(EmptyTable, PredefinedSymbols)

PredefinedNames == DOMAIN PredefinedTable

\* the names that are keys after pass 1
DeclaredLabels == {LabelName(code[k]) : k \in LabelLines(Len(code))}

Pass1Keys == PredefinedNames \cup DeclaredLabels

Operand(k) == StrFrom(code[k], 1)

\* the address instructions among the first n lines whose operand is a variable
VariableLines(n) ==
    {k \in 1..n : /\ starts_with(code[k], "@")
                  /\ ~IsNumericOperand(Operand(k))
                  /\ Operand(k) \notin Pass1Keys}

\* line k is where its variable is met first
IsFirstEncounter(k) ==
    \A m \in VariableLines(k - 1) : Operand(m) # Operand(k)

\* the place of the variable first met at line k, in first-encounter order
Rank(k) == Cardinality({m \in VariableLines(k) : IsFirstEncounter(m)})

\* C15: in pass 2 the k-th distinct address operand (in first-encounter
\* order) that is neither numeric nor a key after pass 1 is bound to
\* 16 + (k-1); an operand naming a predefined symbol or a label declared
\* anywhere is never allocated; distinct variables have distinct addresses.
C15_VariableAllocation ==
    asm_pc \in {"pass2", "assemble", "done", "error"} =>
        LET variables  == VariableLines(Pass2Seen)
            names      == {Operand(k) : k \in variables}
            predefined == PredefinedTable
        IN  /\ \A k \in variables :
                  IsFirstEncounter(k) => symbol_table[Operand(k)] = 16 + (Rank(k) - 1)
            /\ \A j \in variables, k \in variables :
                  Operand(j) # Operand(k)
                      => symbol_table[Operand(j)] # symbol_table[Operand(k)]
            /\ not_defined_variable = 16 + Cardinality(names)
            /\ DOMAIN symbol_table = (DOMAIN predefined) \cup DeclaredLabels \cup names
            /\ \A name \in (DOMAIN predefined) \ DeclaredLabels :
                  symbol_table[name] = predefined[name]
            /\ \A k \in LabelLines(Len(code)) :
                  IsLastDeclaration(k, Len(code))
                      => symbol_table[LabelName(code[k])] = RealLinesBefore(k)

C15_Witness ==
    /\ asm_pc = "assemble"
    /\ code = <<"@j", "@i", "@j">>
    /\ symbol_table["j"] = 16
    /\ symbol_table["i"] = 17
    /\ not_defined_variable = 18

\* C16: throughout build_symbol_table, once a name is bound to an address
\* (as a predefined symbol, a label or a variable) no later step of pass 1
\* or pass 2 binds the same name to a different address.
C16_BindingsStable ==
    [][\A name \in DOMAIN symbol_table :
           name \in DOMAIN symbol_table' /\ symbol_table'[name] = symbol_table[name]]_vars

(***************************************************************************)
(* Properties of the translated code when it runs: branches, comparisons.  *)
(***************************************************************************)
\* a signed value as a word, and a word as a signed value
AsWord(v) == (v + Word) % Word

Signed(w) == IF w >= Word \div 2 THEN w - Word ELSE w

\* the instructions of if-goto: its lines, none of them a label
IfGotoLength == Len(write_if_goto(""))

\* the program pushes v and branches on it
IsBranchProgram(v) ==
    lines = v.text \o <<"if-goto SKIP", PushConstant(5), "label SKIP", PushConstant(9)>>

\* the instructions before the if-goto of the branch program of v
BranchAt(v) ==
    Len(write_push("constant", 0, UnitName).lines)
    + (IF Len(v.text) = 2 THEN Len(UnaryOp("")) ELSE 0)

\* C17: the code of `if-goto L` lowers the stack pointer by exactly one and
\* transfers control to L if and only if the popped value is not zero (any
\* value but zero, not only -1); otherwise execution goes on with the next
\* instruction.
C17_IfGoto ==
    \A v \in SignedOperands :
        (IsBranchProgram(v) /\ cpu_pc \in {"run", "halt", "fault"}) =>
            LET s      == ram0[SPAddr]
                before == BranchAt(v)
                next   == before + IfGotoLength
                target == symbol_table["SKIP"]
            IN  /\ cpu_pc # "fault"
                /\ target = next + Len(write_push("constant", 5, UnitName).lines)
                /\ (cpu_pc = "run" /\ PC = before)
                      => (RAM[SPAddr] = s + 1 /\ RAM[s] = AsWord(v.val))
                /\ (cpu_pc = "run" /\ PC = next)
                      => (v.val = 0 /\ RAM[SPAddr] = s)
                /\ (cpu_pc = "run" /\ PC = target /\ RAM[SPAddr] = s)
                      => v.val # 0
                /\ cpu_pc = "halt"
                      => IF v.val # 0
                         THEN RAM[SPAddr] = s + 1 /\ RAM[s] = 9
                         ELSE RAM[SPAddr] = s + 2 /\ RAM[s] = 5 /\ RAM[s + 1] = 9

C17_Witness ==
    /\ cpu_pc = "halt"
    /\ lines = <<"push constant 1", "not", "if-goto SKIP", "push constant 5",
                 "label SKIP", "push constant 9">>
    /\ ram0[SPAddr] = 16
    /\ RAM[SPAddr] = 17
    /\ RAM[16] = 9

\* the instructions of a comparison: its lines but the two labels
ComparisonLength == Len(Comparison("eq", "", "")) - 2

Holds(cmp, x, y) ==
    CASE cmp = "gt" -> x > y
      [] cmp = "lt" -> x < y
      [] cmp = "eq" -> x = y

\* C18: for signed 16-bit x (second from top) and y (top), the code of gt
\* (lt, eq) run on the 16-bit machine leaves -1 in the result slot exactly
\* when x > y (x < y, x = y) as signed integers and 0 otherwise, the pairs
\* for which x - y overflows 16 bits included.
C18_SignedComparison ==
    \A x \in SignedOperands, y \in SignedOperands, cmp \in {"eq", "gt", "lt"} :
        (lines = x.text \o y.text \o <<cmp>> /\ cpu_pc \in {"run", "halt", "fault"}) =>
            LET s == ram0[SPAddr]
            IN  /\ cpu_pc # "fault"
                /\ (cpu_pc = "run" /\ PC = Len(binary_code) - ComparisonLength)
                      => /\ RAM[SPAddr] = s + 2
                         /\ Signed(RAM[s]) = x.val
                         /\ Signed(RAM[s + 1]) = y.val
                /\ cpu_pc = "halt"
                      => /\ RAM[SPAddr] = s + 1
                         /\ Signed(RAM[s]) = (IF Holds(cmp, x.val, y.val) THEN -1 ELSE 0)

(***************************************************************************)
(* Properties of the two tools together: the register symbols.             *)
(***************************************************************************)
BasePointers == {"SP", "LCL", "ARG", "THIS", "THAT"}

RegisterSymbols == BasePointers \cup {"R13"}

\* the register symbols the translation names in an address instruction
EmittedRegisters == {r \in RegisterSymbols : \E k \in 1..Len(code) : code[k] = "@" \o r}

\* C20: every register symbol the translator emits as an address operand
\* (SP, LCL, ARG, THIS, THAT, R13) is a predefined key of the assembler's
\* table before pass 1, with SP, LCL, ARG, THIS, THAT bound to five distinct
\* addresses in 0..4; assembling translator output never allocates a base
\* pointer as a variable at address 16 or above.
C20_RegistersPredefined ==
    (vm_pc = "done" /\ asm_pc \in {"pass1", "pass2", "assemble", "done", "error"}) =>
        /\ (asm_pc = "pass1" /\ asm_i = 1) =>
              /\ EmittedRegisters \subseteq DOMAIN symbol_table
              /\ BasePointers \subseteq DOMAIN symbol_table
              /\ \A p \in BasePointers : symbol_table[p] \in 0..4
              /\ \A p \in BasePointers, q \in BasePointers :
                    p # q => symbol_table[p] # symbol_table[q]
        /\ \A p \in BasePointers \cap DOMAIN symbol_table : symbol_table[p] < 16

=============================================================================
